---- MODULE Spec2Model ----
(***************************************************************************)
(* HyperCast: the time-series learning pipeline.                           *)
(*   - WeatherFeatureEngineer and the feature-engineering main()           *)
(*     (src/data/processing/feature_engineering.py)                        *)
(*   - the training loop of src/services/ml/train.py                       *)
(*   - WeatherPredictor.predict (src/services/ml/inference.py)             *)
(*   - the forecast API (src/services/api/app/main.py)                     *)
(*   - the GFS downloader (src/data/ingestion/gfs_download.py)             *)
(* Floating-point values are kept exact: raw temperatures are integers,    *)
(* the cyclical encodings are in thousandths, and a standardized value is  *)
(* the pair <<a, b>> that stands for a / sqrt(b).                           *)
(***************************************************************************)
EXTENDS Integers, Sequences, FiniteSets, TLC

\* ------------------------------------------------------------------ bounds
MaxRows == 3          \* rows of the input table
MaxSpan == 3          \* sequence_length, forecast_horizon >= 1 with sum <= MaxSpan
MaxEpochs == 4        \* --epochs ranges over 0..MaxEpochs
MaxPatience == 3      \* --patience ranges over 0..MaxPatience
MaxLoss == 2          \* finite validation losses range over 0..MaxLoss
MaxSamples == 1       \* windows in X_train.npy / X_val.npy range over 0..MaxSamples
MaxCalls == 3         \* returned predict calls that are kept for comparison
MaxCombos == 2        \* (date, cycle, forecast-hour) combinations of a downloader run
MaxRuns == 2          \* downloader runs over the same output directory

\* --------------------------------------------------------- value encodings
NaN == -1             \* a missing numeric value, a NaN loss (the known ones are >= 0)
NaNZ == <<0, 0>>      \* a standardized value that is NaN
Inf == MaxLoss + 1    \* float('inf'): above every finite loss
Unfitted == [fitted |-> FALSE, stats |-> << >>]   \* StandardScaler() before fit

Timestamps == 0 .. (MaxRows - 1)   \* in 3-hour steps from Jan 1, 00:00

Max(S) == CHOOSE x \in S : \A y \in S : y <= x
Min(S) == CHOOSE x \in S : \A y \in S : x <= y

\* --------------------------------------------------------------- variables
VARIABLES
    table,            \* the table main() reads: [columns, rows]
    engineer,         \* WeatherFeatureEngineer: sequence_length, forecast_horizon, scaler, feature_columns
    df,               \* the DataFrame prepare_data returned: [columns, rows]
    seqs,             \* what create_sequences returned: [X, y, timestamps]
    fe,               \* feature-engineering control: [pc, call, error, fit_scaler, exit, stderr]
    files,            \* the artifacts in output_dir
    targs,            \* train.py arguments and loaded data: epochs, patience, batch_size, train, val
    tpc,              \* train.py position
    epoch,            \* epochs entered so far (the loop variable is epoch - 1 after an epoch)
    best_val_loss,
    patience_counter,
    checkpoint,       \* best_model.pth: [exists, epoch, val_loss]
    val_history,      \* validation loss of every completed epoch, in order
    texit,            \* train.py outcome: [status, error, early, stdout]
    predictor,        \* WeatherPredictor: [pc, scaler, metadata, model_config, model]
    prediction,       \* outcome of the last predict call
    results,          \* the first MaxCalls <<window, result>> pairs predict returned, in order
    service,          \* the API process: [pc, artifacts], artifacts being best_model.pth and scaler.pkl
    data,             \* atlanta_timeseries.parquet as the API reads it: [readable, columns, rows]
    response,         \* what the last request got back
    dl,               \* gfs_download.py main(): [pc, paths, i, total, saved, log, run, status]
    disk              \* the output files: path -> "absent", "empty", "partial", "complete"

feVars == <<table, engineer, df, seqs, fe, files>>
trainVars == <<targs, tpc, epoch, best_val_loss, patience_counter, checkpoint,
               val_history, texit>>
predVars == <<predictor, prediction, results>>
apiVars == <<service, data, response>>
dlVars == <<dl, disk>>
vars == <<feVars, trainVars, predVars, apiVars, dlVars>>

\* =========================================================================
\* feature_engineering.py
\* =========================================================================

\* Column layouts of the processed table; a layout without "timestamp" is a
\* table that lacks the column.
ColumnLayouts ==
    { <<"timestamp", "temperature">>,
      <<"timestamp", "temperature", "humidity">>,
      <<"temperature", "humidity">> }

\* Rows carry every field; a field whose column is not in the layout is not
\* read.  id is the row's position in the input (0-based) and never changes;
\* index is the DataFrame index label.  Timestamps come in any order, with
\* repeats; the temperatures differ from row to row and at most one of them
\* is missing.
InputRows(n) ==
    { [i \in 1..n |-> [id |-> i - 1, index |-> i - 1, timestamp |-> ts[i],
                       temperature |-> IF i = missing THEN NaN ELSE 10 * i,
                       humidity |-> 50]] :
        ts \in [1..n -> Timestamps], missing \in 0..n }

InputTables ==
    { [columns |-> c, rows |-> r] :
        c \in ColumnLayouts, r \in UNION { InputRows(n) : n \in 0..MaxRows } }

HasColumn(d, c) == \E i \in 1..Len(d.columns) : d.columns[i] = c

IndexPermutations(n) ==
    { p \in [1..n -> 1..n] : \A i, j \in 1..n : i # j => p[i] # p[j] }

\* df.sort_values('timestamp'): ascending; the default kind is quicksort,
\* which is not stable, so rows of equal timestamp come out in any order.
SortValues(rows) ==
    { [i \in 1..Len(rows) |-> rows[p[i]]] :
        p \in { q \in IndexPermutations(Len(rows)) :
                  \A i \in 1..(Len(rows) - 1) :
                      rows[q[i]].timestamp <= rows[q[i + 1]].timestamp } }

ResetIndex(rows) == [i \in 1..Len(rows) |-> [rows[i] EXCEPT !.index = i - 1]]

\* df.drop_duplicates(subset=['timestamp'], keep='first'): a row stays iff no
\* row before it has its timestamp; the index labels stay as they are.
RECURSIVE DropDuplicates(_)
DropDuplicates(rows) ==
    IF rows = << >> THEN << >>
    ELSE LET init == SubSeq(rows, 1, Len(rows) - 1)
             last == rows[Len(rows)]
         IN  IF \E j \in 1..Len(init) : init[j].timestamp = last.timestamp
             THEN DropDuplicates(init)
             ELSE Append(DropDuplicates(init), last)

\* 1000 * sin(2 pi h / 24) and 1000 * cos(2 pi h / 24) for h = 0, 3, ..., 21
HourSinTable == <<0, 707, 1000, 707, 0, -707, -1000, -707>>
HourCosTable == <<1000, 707, 0, -707, -1000, -707, 0, 707>>
\* 1000 * sin(2 pi d / 365) and 1000 * cos(2 pi d / 365) for d = 1 .. 4
DaySinTable == <<17, 34, 52, 69>>
DayCosTable == <<1000, 999, 999, 998>>

Hour(ts) == (3 * ts) % 24
DayOfYear(ts) == 1 + ((3 * ts) \div 24)

TimeFeatures(r) ==
    r @@ [hour |-> Hour(r.timestamp),
          day_of_year |-> DayOfYear(r.timestamp),
          hour_sin |-> HourSinTable[(Hour(r.timestamp) \div 3) + 1],
          hour_cos |-> HourCosTable[(Hour(r.timestamp) \div 3) + 1],
          day_sin |-> DaySinTable[DayOfYear(r.timestamp)],
          day_cos |-> DayCosTable[DayOfYear(r.timestamp)]]

TimeColumns == <<"hour", "day_of_year", "hour_sin", "hour_cos", "day_sin", "day_cos">>

Column(rows, c) == [i \in 1..Len(rows) |-> rows[i][c]]

\* fillna(method='ffill'): the last known value at or before the row
FFill(vals) ==
    [i \in 1..Len(vals) |->
        LET known == { j \in 1..i : vals[j] # NaN }
        IN  IF known = {} THEN NaN ELSE vals[Max(known)]]

\* fillna(method='bfill'): the first known value at or after the row
BFill(vals) ==
    [i \in 1..Len(vals) |->
        LET known == { j \in i..Len(vals) : vals[j] # NaN }
        IN  IF known = {} THEN NaN ELSE vals[Min(known)]]

FillNa(rows, numeric_cols) ==
    LET filled == [c \in numeric_cols |-> BFill(FFill(Column(rows, c)))]
    IN  [i \in 1..Len(rows) |->
            [c \in DOMAIN rows[i] |->
                IF c \in numeric_cols THEN filled[c][i] ELSE rows[i][c]]]

\* prepare_data on a table that has the timestamp column; sorted is the
\* outcome of the sort.
PrepareData(t, sorted) ==
    LET deduped == DropDuplicates(ResetIndex(sorted))
        timed == [i \in 1..Len(deduped) |-> TimeFeatures(deduped[i])]
        columns == t.columns \o TimeColumns
        numeric_cols == { columns[i] : i \in 1..Len(columns) } \ {"timestamp"}
    IN  [columns |-> columns, rows |-> FillNa(timed, numeric_cols)]

IsFeature(c) == c \notin {"timestamp", "hour", "day_of_year"}
FeatureCols(d) == SelectSeq(d.columns, IsFeature)

Features(d, cols) ==
    [i \in 1..Len(d.rows) |-> [j \in 1..Len(cols) |-> d.rows[i][cols[j]]]]

RECURSIVE Sum(_)
Sum(s) == IF s = << >> THEN 0 ELSE s[1] + Sum(Tail(s))

NotNaN(v) == v # NaN
Square(s) == [i \in 1..Len(s) |-> s[i] * s[i]]

\* StandardScaler statistics of one column; NaN is disregarded in fit.
ColStats(vals) ==
    LET known == SelectSeq(vals, NotNaN)
    IN  [n |-> Len(known), sum |-> Sum(known), sumsq |-> Sum(Square(known))]

ScalerFit(features, k) ==
    [fitted |-> TRUE,
     stats |-> [j \in 1..k |-> ColStats([i \in 1..Len(features) |-> features[i][j]])]]

\* (v - mean) / scale, with mean = sum / n and scale = sqrt(n * sumsq - sum^2) / n,
\* or scale = 1 when the variance is zero: <<a, b>> stands for a / sqrt(b).
ScaledValue(st, v) ==
    IF v = NaN \/ st.n = 0 THEN NaNZ
    ELSE LET d == st.n * st.sumsq - st.sum * st.sum
         IN  IF d = 0 THEN <<st.n * v - st.sum, st.n * st.n>>
                      ELSE <<st.n * v - st.sum, d>>

ScalerTransform(scaler, features) ==
    [i \in 1..Len(features) |->
        [j \in 1..Len(features[i]) |-> ScaledValue(scaler.stats[j], features[i][j])]]

\* transform that lets a narrower table through
ScalerErrorNarrowPasses(scaler, fit_scaler, n_samples, n_features) ==
    IF ~fit_scaler /\ ~scaler.fitted THEN "NotFittedError"
    ELSE IF n_samples = 0 \/ n_features = 0 THEN "ValueError"
    ELSE IF ~fit_scaler /\ n_features > Len(scaler.stats) THEN "ValueError"
    ELSE ""

\* What fit_transform / transform raise before computing anything ("" if nothing).
ScalerError(scaler, fit_scaler, n_samples, n_features) ==
    IF ~fit_scaler /\ ~scaler.fitted THEN "NotFittedError"
    ELSE IF n_samples = 0 \/ n_features = 0 THEN "ValueError"
    ELSE IF ~fit_scaler /\ n_features # Len(scaler.stats) THEN "ValueError"
    ELSE ""

\* range(len(df) - sequence_length - forecast_horizon + 1) stops here
RangeStop(n, sequence_length, forecast_horizon) ==
    n - sequence_length - forecast_horizon + 1

TargetIdx(i, sequence_length, forecast_horizon) ==
    i + sequence_length + forecast_horizon - 1

\* s[a:b] of a 0-based array
Slice(s, a, b) == SubSeq(s, a + 1, IF b < Len(s) THEN b ELSE Len(s))

\* df.loc[pos]: the row whose index label is pos (the first row when no row
\* carries the label)
LocByLabel(rows, pos) ==
    LET at == { k \in 1..Len(rows) : rows[k].index = pos }
    IN  IF at = {} THEN rows[1] ELSE rows[CHOOSE k \in at : TRUE]

\* df.iloc[pos]: the row at 0-based position pos, whatever its index label
Iloc(rows, pos) == rows[pos + 1]

\* The for loop of create_sequences from i on; acc is [X, y, timestamps, error].
RECURSIVE WindowLoop(_, _, _, _, _)
WindowLoop(i, stop, e, d, acc) ==
    IF i >= stop THEN acc
    ELSE LET target_idx == TargetIdx(i, e.sequence_length, e.forecast_horizon)
         IN  IF target_idx < 0 \/ target_idx >= Len(d.scaled)
             THEN [acc EXCEPT !.error = "IndexError"]
             ELSE WindowLoop(i + 1, stop, e, d,
                    [X |-> Append(acc.X, Slice(d.scaled, i, i + e.sequence_length)),
                     y |-> Append(acc.y, d.scaled[target_idx + 1][1]),
                     timestamps |->
                        IF d.has_timestamp
                        THEN Append(acc.timestamps, Iloc(d.rows, target_idx).timestamp)
                        ELSE acc.timestamps,
                     error |-> ""])

NoSeqs == [X |-> << >>, y |-> << >>, timestamps |-> << >>]

\* ------------------------------------------------------------ FE actions

\* main, lines 172-175: the input file is missing
MainNoInput ==
    /\ fe.pc = "start"
    /\ fe' = [fe EXCEPT !.pc = "done", !.exit = 1, !.stderr = "does not exist"]
    /\ UNCHANGED <<table, engineer, df, seqs, files, trainVars, predVars, apiVars, dlVars>>

\* prepare_data.  Without the timestamp column, drop_duplicates(subset=
\* ['timestamp']) raises KeyError, unless the frame is empty: an empty frame
\* is returned as it is, before the subset is looked at.
Prepare ==
    /\ fe.pc = "start"
    /\ IF HasColumn(table, "timestamp")
       THEN \E sorted \in SortValues(table.rows) :
                /\ df' = PrepareData(table, sorted)
                /\ fe' = [fe EXCEPT !.pc = "prepared", !.call = "prepare_data"]
       ELSE IF table.rows = << >>
       THEN /\ df' = table
            /\ fe' = [fe EXCEPT !.pc = "prepared", !.call = "prepare_data"]
       ELSE /\ df' = df
            /\ fe' = [fe EXCEPT !.pc = "raised", !.call = "prepare_data",
                                !.error = "KeyError", !.exit = 1]
    /\ UNCHANGED <<table, engineer, seqs, files, trainVars, predVars, apiVars, dlVars>>

\* load_scaler: the engineer's scaler becomes one that was fit earlier
LoadScaler(pickled) ==
    /\ fe.pc = "start"
    /\ ~engineer.scaler.fitted
    /\ engineer' = [engineer EXCEPT !.scaler = pickled]
    /\ UNCHANGED <<table, df, seqs, fe, files, trainVars, predVars, apiVars, dlVars>>

\* create_sequences(df, fit_scaler)
CreateSequences(fit_scaler) ==
    /\ fe.pc = "prepared"
    /\ LET cols == FeatureCols(df)
           features == Features(df, cols)
           err == ScalerError(engineer.scaler, fit_scaler, Len(features), Len(cols))
           scaler == IF fit_scaler
                     THEN (IF err = "" THEN ScalerFit(features, Len(cols)) ELSE Unfitted)
                     ELSE engineer.scaler
           out == IF err # "" THEN NoSeqs @@ [error |-> err]
                  ELSE WindowLoop(0,
                         RangeStop(Len(df.rows), engineer.sequence_length,
                                   engineer.forecast_horizon),
                         engineer,
                         [scaled |-> ScalerTransform(scaler, features),
                          rows |-> df.rows,
                          has_timestamp |-> HasColumn(df, "timestamp")],
                         NoSeqs @@ [error |-> ""])
       IN  /\ engineer' = [engineer EXCEPT !.feature_columns = cols, !.scaler = scaler]
           /\ IF out.error = ""
              THEN /\ seqs' = [X |-> out.X, y |-> out.y, timestamps |-> out.timestamps]
                   /\ fe' = [fe EXCEPT !.pc = "sequenced", !.call = "create_sequences",
                                       !.fit_scaler = fit_scaler]
              ELSE /\ seqs' = seqs
                   /\ fe' = [fe EXCEPT !.pc = "raised", !.call = "create_sequences",
                                       !.error = out.error,
                                       !.fit_scaler = fit_scaler, !.exit = 1]
    /\ UNCHANGED <<table, df, files, trainVars, predVars, apiVars, dlVars>>

\* main, lines 198-201: no window
MainNoWindows ==
    /\ fe.pc = "sequenced"
    /\ fe.fit_scaler
    /\ Len(seqs.X) = 0
    /\ fe' = [fe EXCEPT !.pc = "done", !.exit = 1, !.stderr = "Not enough data"]
    /\ UNCHANGED <<table, engineer, df, seqs, files, trainVars, predVars, apiVars, dlVars>>

\* --train-split, in percent
TrainSplits == {80, 100}

NoFiles == [written |-> FALSE]

\* main, lines 203-242: split, save the arrays, the scaler and the metadata
MainSave ==
    /\ fe.pc = "sequenced"
    /\ fe.fit_scaler
    /\ Len(seqs.X) # 0
    /\ \E train_split \in TrainSplits :
          LET split_idx == (Len(seqs.X) * train_split) \div 100
              X_train == Slice(seqs.X, 0, split_idx)
              X_val == Slice(seqs.X, split_idx, Len(seqs.X))
          IN  files' = [written |-> TRUE,
                        X_train |-> X_train,
                        y_train |-> Slice(seqs.y, 0, split_idx),
                        X_val |-> X_val,
                        y_val |-> Slice(seqs.y, split_idx, Len(seqs.y)),
                        scaler |-> engineer.scaler,
                        metadata |->
                           [sequence_length |-> engineer.sequence_length,
                            forecast_horizon |-> engineer.forecast_horizon,
                            n_features |-> Len(seqs.X[1][1]),
                            feature_columns |-> engineer.feature_columns,
                            train_samples |-> Len(X_train),
                            val_samples |-> Len(X_val)]]
    /\ fe' = [fe EXCEPT !.pc = "done", !.exit = 0]
    /\ UNCHANGED <<table, engineer, df, seqs, trainVars, predVars, apiVars, dlVars>>


\* ------------------------------------------------------------ initial states

FEStart ==
    /\ fe = [pc |-> "start", call |-> "", error |-> "", fit_scaler |-> FALSE,
            exit |-> -1, stderr |-> ""]
    /\ df = [columns |-> << >>, rows |-> << >>]
    /\ seqs = NoSeqs
    /\ files = NoFiles

FEIdle ==
    /\ table = [columns |-> << >>, rows |-> << >>]
    /\ engineer = [sequence_length |-> 8, forecast_horizon |-> 8,
                   scaler |-> Unfitted, feature_columns |-> << >>]
    /\ fe = [pc |-> "idle", call |-> "", error |-> "", fit_scaler |-> FALSE,
            exit |-> -1, stderr |-> ""]
    /\ df = [columns |-> << >>, rows |-> << >>]
    /\ seqs = NoSeqs
    /\ files = NoFiles

TrainIdle ==
    /\ targs = [epochs |-> 0, patience |-> 0, batch_size |-> 0, train |-> 0, val |-> 0]
    /\ tpc = "idle"
    /\ epoch = 0
    /\ best_val_loss = Inf
    /\ patience_counter = 0
    /\ checkpoint = [exists |-> FALSE, epoch |-> 0, val_loss |-> Inf]
    /\ val_history = << >>
    /\ texit = [status |-> -1, error |-> "", early |-> FALSE, stdout |-> ""]

PredIdle ==
    /\ predictor = [pc |-> "idle"]
    /\ prediction = [state |-> "none"]
    /\ results = << >>

ApiIdle ==
    /\ service = [pc |-> "idle"]
    /\ data = [readable |-> FALSE, columns |-> << >>, rows |-> << >>]
    /\ response = [kind |-> "none"]

DlIdle ==
    /\ dl = [pc |-> "idle"]
    /\ disk = << >>

\* The feature-engineering script on any input table, any sequence_length and
\* forecast_horizon.
InitFE ==
    /\ table \in InputTables
    /\ \E L \in 1..MaxSpan, H \in 1..MaxSpan :
          /\ L + H <= MaxSpan
          /\ engineer = [sequence_length |-> L, forecast_horizon |-> H,
                         scaler |-> Unfitted, feature_columns |-> << >>]
    /\ FEStart
    /\ TrainIdle
    /\ PredIdle
    /\ ApiIdle
    /\ DlIdle

NextFE ==
    \/ MainNoInput
    \/ Prepare
    \/ CreateSequences(TRUE)
    \/ MainNoWindows
    \/ MainSave

SpecFE == InitFE /\ [][NextFE]_vars

\* =========================================================================
\* train.py
\* =========================================================================

BatchSize == 2

\* the mean losses an epoch can report: finite, inf, or nan
Losses == (0..MaxLoss) \cup {Inf, NaN}

\* a < b on floats: false as soon as either side is nan
Less(a, b) == a # NaN /\ b # NaN /\ a < b

\* len(DataLoader(dataset, batch_size)): the number of batches
NumBatches(samples, batch_size) == (samples + batch_size - 1) \div batch_size

\* val_loss <= best_val_loss
ImprovedOrEqual(val_loss, best) == Less(val_loss, best) \/ (val_loss # NaN /\ val_loss = best)

\* line 206
Improved(val_loss, best) == Less(val_loss, best)

\* patience_counter > args.patience
PatienceExceeded(counter, patience) == counter > patience

\* line 229
PatienceReached(counter, patience) == counter >= patience

\* main, lines 148-151: the data directory is missing
TrainNoData ==
    /\ tpc = "start"
    /\ tpc' = "done"
    /\ texit' = [texit EXCEPT !.status = 1]
    /\ UNCHANGED <<targs, epoch, best_val_loss, patience_counter, checkpoint,
                   val_history, feVars, predVars, apiVars, dlVars>>

\* main, lines 153-196: load the arrays, build the loaders, the model and the
\* optimizer.  DataLoader(train_dataset, shuffle=True) builds a RandomSampler,
\* which raises ValueError on an empty dataset.
TrainStartup ==
    /\ tpc = "start"
    /\ IF targs.train = 0
       THEN /\ tpc' = "crashed"
            /\ texit' = [texit EXCEPT !.status = 1, !.error = "ValueError"]
            /\ UNCHANGED <<best_val_loss, patience_counter>>
       ELSE /\ tpc' = "loop"
            /\ best_val_loss' = Inf
            /\ patience_counter' = 0
            /\ texit' = texit
    /\ UNCHANGED <<targs, epoch, checkpoint, val_history, feVars, predVars, apiVars, dlVars>>

\* One pass of the for loop, lines 198-231: train_epoch, validate, then keep
\* the best model or count towards early stopping.  validate divides the
\* total loss by len(val_loader).
TrainEpoch ==
    /\ tpc = "loop"
    /\ epoch < targs.epochs
    /\ IF NumBatches(targs.val, targs.batch_size) = 0
       THEN /\ tpc' = "crashed"
            /\ texit' = [texit EXCEPT !.status = 1, !.error = "ZeroDivisionError"]
            /\ UNCHANGED <<epoch, best_val_loss, patience_counter, checkpoint, val_history>>
       ELSE \E val_loss \in Losses :
              /\ val_history' = Append(val_history, val_loss)
              /\ epoch' = epoch + 1
              /\ IF Improved(val_loss, best_val_loss)
                 THEN /\ best_val_loss' = val_loss
                      /\ patience_counter' = 0
                      /\ checkpoint' = [exists |-> TRUE, epoch |-> epoch,
                                        val_loss |-> val_loss]
                      /\ tpc' = "loop"
                      /\ texit' = texit
                 ELSE /\ patience_counter' = patience_counter + 1
                      /\ UNCHANGED <<best_val_loss, checkpoint>>
                      /\ IF PatienceReached(patience_counter + 1, targs.patience)
                         THEN /\ tpc' = "break"
                              /\ texit' = [texit EXCEPT !.early = TRUE]
                         ELSE /\ tpc' = "loop"
                              /\ texit' = texit
    /\ UNCHANGED <<targs, feVars, predVars, apiVars, dlVars>>

\* lines 233-237, after the break or after range(args.epochs) is used up
TrainReturn ==
    /\ \/ tpc = "break"
       \/ tpc = "loop" /\ epoch >= targs.epochs
    /\ tpc' = "done"
    /\ texit' = [texit EXCEPT !.status = 0, !.stdout = "Model saved to"]
    /\ UNCHANGED <<targs, epoch, best_val_loss, patience_counter, checkpoint,
                   val_history, feVars, predVars, apiVars, dlVars>>

\* train.py on any epoch cap, patience and partition sizes
InitTrain ==
    /\ \E e \in 0..MaxEpochs, p \in 0..MaxPatience, tr \in 0..MaxSamples, va \in 0..MaxSamples :
          targs = [epochs |-> e, patience |-> p, batch_size |-> BatchSize,
                   train |-> tr, val |-> va]
    /\ tpc = "start"
    /\ epoch = 0
    /\ best_val_loss = Inf
    /\ patience_counter = 0
    /\ checkpoint = [exists |-> FALSE, epoch |-> 0, val_loss |-> Inf]
    /\ val_history = << >>
    /\ texit = [status |-> -1, error |-> "", early |-> FALSE, stdout |-> ""]
    /\ FEIdle
    /\ PredIdle
    /\ ApiIdle
    /\ DlIdle

NextTrain ==
    \/ TrainNoData
    \/ TrainStartup
    \/ TrainEpoch
    \/ TrainReturn

SpecTrain == InitTrain /\ [][NextTrain]_vars

\* every step of the script is taken eventually: nothing in it waits
FairTrain == SpecTrain /\ WF_vars(NextTrain)

\* =========================================================================
\* inference.py
\* =========================================================================

\* The feature counts of the column layouts: the table's numeric columns and
\* the four cyclical encodings.
FeatureCounts == {5, 6}

\* A scaler as pickled by an earlier run: fit on k columns, each holding the
\* values 10 and 20 (mean 15, standard deviation 5).
RestoredScaler(k) ==
    [fitted |-> TRUE, stats |-> [j \in 1..k |-> [n |-> 2, sum |-> 30, sumsq |-> 500]]]

PickledScalers == { RestoredScaler(k) : k \in FeatureCounts }

\* fit statistics of a column holding m - sd and m + sd: mean m, deviation sd
StatsOf(m, sd) == [n |-> 2, sum |-> 2 * m, sumsq |-> 2 * (m * m + sd * sd)]

\* scaler.pkl of any run: the target column and the other columns have their
\* own means and deviations
FittedScalers ==
    { [fitted |-> TRUE,
       stats |-> [j \in 1..k |-> IF j = 1 THEN first ELSE other]] :
        k \in FeatureCounts,
        first \in {StatsOf(0, 10), StatsOf(100, 10), StatsOf(15, 5)},
        other \in {StatsOf(15, 5), StatsOf(50, 10)} }

\* the weights a training run can leave in model_state_dict
Weights == {-1, 1}

\* best_model.pth as written by train.py for data with k features
Checkpoints ==
    { [metadata |-> [forecast_horizon |-> h, n_features |-> k],
       model_config |-> [input_size |-> k],
       model_state_dict |-> w] :
        h \in {1, 8}, k \in FeatureCounts, w \in Weights }

\* recent_data: r rows of k columns
Windows ==
    { [i \in 1..r |-> [j \in 1..k |-> 10 * i]] : r \in {0, 1, 4}, k \in FeatureCounts }

\* what the network can answer for a window, in standardized units
ModelOutputs == {-1, 0, 1}

\* a NaN answer of the network
NaNOut == Max(ModelOutputs) + 1

Sgn(x) == IF x > 0 THEN 1 ELSE IF x < 0 THEN -1 ELSE 0

HasNaN(X) == \E i \in 1..Len(X) : \E j \in 1..Len(X[i]) : X[i][j] = NaNZ

\* WeatherLSTM.forward on one window, as the set of values it can return.
\* Without dropout the output is a function of the weights and the input
\* (here: of the weights and the last row's first feature); with dropout
\* active units are zeroed at random and it is any value.  NaN in, NaN out.
Forward(model, X) ==
    IF HasNaN(X) THEN {NaNOut}
    ELSE IF model.training THEN ModelOutputs
    ELSE {model.weights * Sgn(X[Len(X)][1][1])}

ISqrt(x) == CHOOSE r \in 0..x : r * r = x

\* mean_ and scale_ of a fitted column (whole numbers for the pickled scalers)
Mean(st) == st.sum \div st.n
Scale(st) ==
    LET d == st.n * st.sumsq - st.sum * st.sum
    IN  IF d = 0 THEN 1 ELSE ISqrt(d) \div st.n

\* scaler.inverse_transform of one row: x * scale_ + mean_ in every column
InverseTransform(scaler, row) ==
    [j \in 1..Len(row) |->
        IF row[j] = NaNOut THEN NaN
        ELSE row[j] * Scale(scaler.stats[j]) + Mean(scaler.stats[j])]

\* the prediction placed in the last column instead
DummyFeaturesAtLast(scaler, scaled_pred) ==
    [j \in 1..Len(scaler.stats) |-> IF j = Len(scaler.stats) THEN scaled_pred ELSE 0]

\* lines 74-75: zeros of width n_features_in_ with the prediction at index 0
DummyFeatures(scaler, scaled_pred) ==
    [j \in 1..Len(scaler.stats) |-> IF j = 1 THEN scaled_pred ELSE 0]

\* C * 5/9 + 32
FahrenheitInverted(celsius) ==
    IF celsius = NaN THEN NaN ELSE (celsius * 5) \div 9 + 32

\* C * 9/5 + 32 (the Celsius values of the model are multiples of 5, so the
\* division is exact); NaN stays NaN
Fahrenheit(celsius) ==
    IF celsius = NaN THEN NaN ELSE (celsius * 9) \div 5 + 32

\* a model that is left in training mode
LoadedInTrainingMode(ckpt, scaler) ==
    [pc |-> "loaded", scaler |-> scaler, metadata |-> ckpt.metadata,
     model_config |-> ckpt.model_config,
     model |-> [weights |-> ckpt.model_state_dict, training |-> TRUE]]

\* WeatherPredictor.__init__, lines 32-43: the object it builds.  create_model
\* returns a module in training mode; load_state_dict sets the weights and
\* eval() switches dropout off.
NewPredictor(ckpt, scaler) ==
    [pc |-> "loaded", scaler |-> scaler, metadata |-> ckpt.metadata,
     model_config |-> ckpt.model_config,
     model |-> [weights |-> ckpt.model_state_dict, training |-> FALSE]]

\* WeatherPredictor.__init__
PredictorInit(ckpt, scaler) ==
    /\ predictor.pc = "start"
    /\ predictor' = NewPredictor(ckpt, scaler)
    /\ UNCHANGED <<prediction, results, feVars, trainVars, apiVars, dlVars>>

\* The body of WeatherPredictor.predict(recent_data), lines 61-89: what it
\* raises or returns; self is only read.
PredictCall(recent_data) ==
    /\ predictor.pc = "loaded"
    /\ LET n_features == IF Len(recent_data) = 0 THEN 0 ELSE Len(recent_data[1])
           err == ScalerError(predictor.scaler, FALSE, Len(recent_data), n_features)
       IN  IF err # ""
           THEN /\ prediction' = [state |-> "raised", error |-> err, input |-> recent_data]
                /\ results' = results
           ELSE IF n_features # predictor.model_config.input_size
           THEN /\ prediction' = [state |-> "raised", error |-> "RuntimeError",
                                  input |-> recent_data]
                /\ results' = results
           ELSE \E scaled_pred \in Forward(predictor.model,
                                           ScalerTransform(predictor.scaler, recent_data)) :
                   LET unscaled == InverseTransform(predictor.scaler,
                                       DummyFeatures(predictor.scaler, scaled_pred))
                       temperature_celsius == unscaled[1]
                       result ==
                           [temperature_celsius |-> temperature_celsius,
                            temperature_fahrenheit |-> Fahrenheit(temperature_celsius),
                            forecast_hours |-> predictor.metadata.forecast_horizon * 3,
                            confidence |-> 85]
                   IN  /\ prediction' =
                          [state |-> "returned", error |-> "", input |-> recent_data,
                           scaled_pred |-> scaled_pred, result |-> result]
                       /\ results' = IF Len(results) < MaxCalls
                                     THEN Append(results, <<recent_data, result>>)
                                     ELSE results
    /\ predictor' = predictor

\* WeatherPredictor.predict(recent_data) called on its own
Predict(recent_data) ==
    /\ PredictCall(recent_data)
    /\ UNCHANGED <<feVars, trainVars, apiVars, dlVars>>

\* A predictor built from any checkpoint and scaler, asked about any windows
InitPredictor ==
    /\ predictor = [pc |-> "start"]
    /\ prediction = [state |-> "none"]
    /\ results = << >>
    /\ FEIdle
    /\ TrainIdle
    /\ ApiIdle
    /\ DlIdle

NextPredictor ==
    \/ \E ckpt \in Checkpoints, scaler \in FittedScalers : PredictorInit(ckpt, scaler)
    \/ \E recent_data \in Windows : Predict(recent_data)

SpecPredictor == InitPredictor /\ [][NextPredictor]_vars

\* =========================================================================
\* A scaler fit in one place and applied in another: an engineer that restores
\* a pickled scaler and windows a table with it, or a predictor.
\* =========================================================================
InitScaler ==
    /\ TrainIdle
    /\ ApiIdle
    /\ DlIdle
    /\ \/ /\ table \in InputTables
          /\ engineer = [sequence_length |-> 1, forecast_horizon |-> 1,
                         scaler |-> Unfitted, feature_columns |-> << >>]
          /\ FEStart
          /\ PredIdle
       \/ /\ FEIdle
          /\ predictor = [pc |-> "start"]
          /\ prediction = [state |-> "none"]
          /\ results = << >>

NextScaler ==
    \/ \E pickled \in PickledScalers : LoadScaler(pickled)
    \/ Prepare
    \/ \E fit_scaler \in BOOLEAN : CreateSequences(fit_scaler)
    \/ \E ckpt \in Checkpoints, scaler \in PickledScalers : PredictorInit(ckpt, scaler)
    \/ \E recent_data \in Windows : Predict(recent_data)

SpecScaler == InitScaler /\ [][NextScaler]_vars

\* =========================================================================
\* app/main.py
\* =========================================================================

\* grib_parser.py, VARIABLE_MAP: the weather columns of a processed table
WeatherVariables ==
    <<"temperature", "humidity", "wind_u", "wind_v", "pressure", "clouds",
      "precipitation">>

\* Column layouts of atlanta_timeseries.parquet: two variables, all seven, or
\* temperature alone.
ProcessedLayouts ==
    { <<"timestamp", "temperature", "humidity">>,
      <<"timestamp">> \o WeatherVariables,
      <<"timestamp", "temperature">> }

\* n rows in time order, 3 hours apart; a variable that a GRIB file lacked is
\* NaN in its row (here: the temperature of the last row).
ProcessedRows(n, nan_last) ==
    [i \in 1..n |->
        [timestamp |-> i - 1,
         temperature |-> IF nan_last /\ i = n THEN NaN ELSE 10 * i,
         humidity |-> 50, wind_u |-> 50, wind_v |-> 50, pressure |-> 50,
         clouds |-> 50, precipitation |-> 50]]

RowCounts == {0, 3, 5, 9}

ProcessedTables ==
    { [readable |-> ok, columns |-> c, rows |-> ProcessedRows(n, nan_last)] :
        ok \in BOOLEAN, c \in ProcessedLayouts, n \in RowCounts, nan_last \in BOOLEAN }

\* the --sequence-length of the pipeline run: the default, or 4
SequenceLengths == {4, 8}

\* What feature_engineering.py and train.py leave for the API when run on a
\* table with these columns: scaler.pkl fit on feature_columns, best_model.pth
\* with the metadata of metadata.json.
Artifacts(columns, sequence_length, w) ==
    LET prepared == [columns |-> columns \o TimeColumns, rows |-> << >>]
        feature_columns == FeatureCols(prepared)
        k == Len(feature_columns)
    IN  [present |-> TRUE,
         scaler |-> [fitted |-> TRUE, stats |-> [j \in 1..k |-> StatsOf(20, 10)]],
         checkpoint |->
            [metadata |-> [sequence_length |-> sequence_length,
                           forecast_horizon |-> 1,
                           n_features |-> k,
                           feature_columns |-> feature_columns],
             model_config |-> [input_size |-> k],
             model_state_dict |-> w]]

NoArtifacts == [present |-> FALSE]

\* line 58, in hundredths of a degree
InBox(lat, lon) == 3300 < lat /\ lat < 3450 /\ -8500 < lon /\ lon < -8350

\* lines 62-65
SupportedArea == [lat_range |-> <<3300, 3450>>, lon_range |-> <<-8500, -8350>>]

\* (lat, lon) of a request: the default, the four edges, two points outside
Requests ==
    { <<3375, -8439>>, <<3300, -8439>>, <<3450, -8439>>, <<3375, -8500>>,
      <<3375, -8350>>, <<3200, -8439>>, <<3375, -8000>> }

\* line 87
ApiFeatures == <<"temperature", "humidity", "hour_sin", "hour_cos", "day_sin", "day_cos">>

\* line 88: .iloc[-4:]
LastRows(m) == SubSeq(m, Max({1, Len(m) - 3}), Len(m))

\* What lines 76-88 raise ("" if nothing): read_parquet on a missing file,
\* df['timestamp'] or df[features] on a missing column.
ReadError(d) ==
    IF ~d.readable THEN "FileNotFoundError"
    ELSE IF ~HasColumn(d, "timestamp") THEN "KeyError"
    ELSE IF \E j \in 1..Len(ApiFeatures) :
               /\ ApiFeatures[j] \notin { TimeColumns[i] : i \in 1..Len(TimeColumns) }
               /\ ~HasColumn(d, ApiFeatures[j]) THEN "KeyError"
    ELSE ""

\* a payload the framework sends as it is
Sent(request, error, body) ==
    [kind |-> "forecast", request |-> request, http |-> 200, error |-> error,
     body |-> body]

\* The framework turns the returned dict into JSON with allow_nan=False: a NaN
\* anywhere in it raises ValueError after the handler has returned, and the
\* client gets a bare 500.
Rendered(request, body, floats) ==
    IF NaN \in floats
    THEN [kind |-> "forecast", request |-> request, http |-> 500,
          error |-> "ValueError", body |-> << >>]
    ELSE Sent(request, "", body)

\* startup_event, lines 29-37
StartupEvent ==
    /\ service.pc = "boot"
    /\ service' = [service EXCEPT !.pc = "serving"]
    /\ predictor' = IF service.artifacts.present
                    THEN NewPredictor(service.artifacts.checkpoint, service.artifacts.scaler)
                    ELSE [pc |-> "none"]
    /\ UNCHANGED <<prediction, results, data, response, feVars, trainVars, dlVars>>

\* health, lines 39-44
Health ==
    /\ service.pc = "serving"
    /\ response' = [kind |-> "health", request |-> << >>, http |-> 200, error |-> "",
                    body |-> [status |-> "ok", model_loaded |-> predictor.pc # "none"]]
    /\ UNCHANGED <<service, data, predVars, feVars, trainVars, dlVars>>

\* get_forecast, lines 46-121, and the rendering of what it returns
GetForecast(lat, lon) ==
    /\ service.pc = "serving"
    /\ IF ~InBox(lat, lon)
       THEN /\ response' = Sent(<<lat, lon>>, "Location not supported",
                                [supported_area |-> SupportedArea])
            /\ UNCHANGED predVars
       ELSE IF predictor.pc = "none"
       THEN /\ response' = Sent(<<lat, lon>>, "Model not loaded", << >>)
            /\ UNCHANGED predVars
       ELSE IF ReadError(data) # ""
       THEN /\ response' = Sent(<<lat, lon>>, "Prediction failed",
                                [message |-> ReadError(data)])
            /\ UNCHANGED predVars
       ELSE LET timed == [columns |-> data.columns \o TimeColumns,
                          rows |-> [i \in 1..Len(data.rows) |-> TimeFeatures(data.rows[i])]]
                recent_data == LastRows(Features(timed, ApiFeatures))
            IN  /\ PredictCall(recent_data)
                /\ IF prediction'.state = "raised"
                   THEN response' = Sent(<<lat, lon>>, "Prediction failed",
                                         [message |-> prediction'.error])
                   ELSE LET result == prediction'.result
                            current == data.rows[Len(data.rows)]
                            current_temp_f == Fahrenheit(current.temperature)
                        IN  response' =
                              Rendered(<<lat, lon>>,
                                 [current |-> [temperature |-> current_temp_f,
                                               humidity |-> current.humidity,
                                               timestamp |-> current.timestamp],
                                  forecast |-> [temperature |-> result.temperature_fahrenheit,
                                                forecast_hours |-> result.forecast_hours,
                                                timestamp |-> current.timestamp
                                                              + result.forecast_hours \div 3],
                                  confidence |-> result.confidence],
                                 {current_temp_f, current.humidity,
                                  result.temperature_fahrenheit})
    /\ UNCHANGED <<service, data, feVars, trainVars, dlVars>>

\* The API started on any processed table, with the artifacts of a pipeline
\* and training run on a table of the same columns, or without artifacts.
InitServe ==
    /\ data \in ProcessedTables
    /\ \E a \in {NoArtifacts} \cup { Artifacts(data.columns, sl, w) :
                                       sl \in SequenceLengths, w \in Weights } :
          service = [pc |-> "boot", artifacts |-> a]
    /\ response = [kind |-> "none"]
    /\ predictor = [pc |-> "none"]
    /\ prediction = [state |-> "none"]
    /\ results = << >>
    /\ FEIdle
    /\ TrainIdle
    /\ DlIdle

NextServe ==
    \/ StartupEvent
    \/ Health
    \/ \E rq \in Requests : GetForecast(rq[1], rq[2])

SpecServe == InitServe /\ [][NextServe]_vars

\* =========================================================================
\* gfs_download.py
\* =========================================================================

\* An output file is absent, empty, holds the first chunks of a response
\* ("partial"), or holds a whole response ("complete").
FileStates == {"absent", "empty", "partial", "complete"}

OutPaths == 1..MaxCombos

\* The out_path of every pass of the three nested loops, in loop order; a
\* cycle or an hour given twice on the command line names a path twice.
PathSeqs == UNION { [1..n -> OutPaths] : n \in 0..MaxCombos }

\* out_path.exists()
ExistsAtAll(state) == state # "absent"

\* line 131: out_path.exists() and out_path.stat().st_size > 0
AlreadySatisfied(state) == state \in {"partial", "complete"}

\* What one call of download can come to:
\*   error_at_get      session.get raises a RequestException
\*   bad_status        status_code # 200
\*   bad_content_type  200 with another Content-Type
\*   saved             200, every chunk written
\*   saved_empty       200 with an empty body
\*   error_at_body     iter_content raises before the first chunk
\*   error_in_body     iter_content raises after chunks were written
Outcomes ==
    {"error_at_get", "bad_status", "bad_content_type", "saved", "saved_empty",
     "error_at_body", "error_in_body"}

\* download, lines 60-76: the file it leaves and the value it returns.
\* open(out_path, "wb") truncates; a RequestException is caught and the file
\* stays as it is at that moment.
Download(outcome, before) ==
    IF outcome \in {"error_at_get", "bad_status", "bad_content_type"}
    THEN [file |-> before, ok |-> FALSE]
    ELSE IF outcome = "saved" THEN [file |-> "complete", ok |-> TRUE]
    ELSE IF outcome = "saved_empty" THEN [file |-> "empty", ok |-> TRUE]
    ELSE IF outcome = "error_at_body" THEN [file |-> "empty", ok |-> FALSE]
    ELSE [file |-> "partial", ok |-> FALSE]

\* main, lines 96-105: a date that does not parse, or end-date < start-date
DlBadArgs ==
    /\ dl.pc = "start"
    /\ dl' = [dl EXCEPT !.pc = "done", !.status = 1]
    /\ UNCHANGED <<disk, feVars, trainVars, predVars, apiVars>>

\* main, lines 107-119
DlBegin ==
    /\ dl.pc = "start"
    /\ dl' = [dl EXCEPT !.pc = "loop", !.total = 0, !.saved = 0]
    /\ UNCHANGED <<disk, feVars, trainVars, predVars, apiVars>>

\* One pass of the innermost loop, lines 125-137.
DlCombination ==
    /\ dl.pc = "loop"
    /\ dl.i < Len(dl.paths)
    /\ LET out_path == dl.paths[dl.i + 1]
           before == disk[out_path]
       IN  IF AlreadySatisfied(before)
           THEN /\ dl' = [dl EXCEPT !.i = @ + 1, !.total = @ + 1,
                             !.log = Append(@, [before |-> before, requests |-> 0,
                                                outcome |-> "exists", counted |-> FALSE])]
                /\ disk' = disk
           ELSE \E outcome \in Outcomes :
                   LET d == Download(outcome, before)
                   IN  /\ dl' = [dl EXCEPT !.i = @ + 1, !.total = @ + 1,
                                    !.saved = IF d.ok THEN @ + 1 ELSE @,
                                    !.log = Append(@, [before |-> before, requests |-> 1,
                                                       outcome |-> outcome,
                                                       counted |-> d.ok])]
                       /\ disk' = [disk EXCEPT ![out_path] = d.file]
    /\ UNCHANGED <<feVars, trainVars, predVars, apiVars>>

\* main, lines 138-139
DlDone ==
    /\ dl.pc = "loop"
    /\ dl.i = Len(dl.paths)
    /\ dl' = [dl EXCEPT !.pc = "done", !.status = 0]
    /\ UNCHANGED <<disk, feVars, trainVars, predVars, apiVars>>

NewRun(paths, run) ==
    [pc |-> "start", paths |-> paths, i |-> 0, total |-> 0, saved |-> 0,
     log |-> << >>, run |-> run, status |-> -1]

\* the script is started again on the same output directory
DlRunAgain ==
    /\ dl.pc = "done"
    /\ dl.run < MaxRuns
    /\ \E paths \in PathSeqs : dl' = NewRun(paths, dl.run + 1)
    /\ UNCHANGED <<disk, feVars, trainVars, predVars, apiVars>>

\* the first run finds an empty output directory
InitDownload ==
    /\ \E paths \in PathSeqs : dl = NewRun(paths, 1)
    /\ disk = [p \in OutPaths |-> "absent"]
    /\ FEIdle
    /\ TrainIdle
    /\ PredIdle
    /\ ApiIdle

NextDownload ==
    \/ DlBadArgs
    \/ DlBegin
    \/ DlCombination
    \/ DlDone
    \/ DlRunAgain

SpecDownload == InitDownload /\ [][NextDownload]_vars

\* =========================================================================
\* Properties of the feature-engineering pipeline (SpecFE)
\* =========================================================================

L == engineer.sequence_length
H == engineer.forecast_horizon
N == Len(df.rows)

\* max(0, n - l - h + 1)
WindowCount(n, l, h) == IF n - l - h + 1 > 0 THEN n - l - h + 1 ELSE 0

Sequenced == fe.call = "create_sequences" /\ fe.pc \in {"sequenced", "done"}
Called == fe.call = "create_sequences"

\* C1: for any cleaned table of N rows and any sequence_length L and
\* forecast_horizon H, create_sequences returns exactly max(0, N - L - H + 1)
\* windows: X, y and timestamps all have that length.
C1_WindowCount ==
    Called =>
        /\ fe.pc # "raised"
        /\ Len(seqs.X) = WindowCount(N, L, H)
        /\ Len(seqs.y) = WindowCount(N, L, H)
        /\ Len(seqs.timestamps) = WindowCount(N, L, H)

\* the standardized feature matrix of the cleaned table, under the scaler
\* the engineer holds
Standardized ==
    ScalerTransform(engineer.scaler, Features(df, engineer.feature_columns))

\* C2: for every window index i that create_sequences produced on a table
\* cleaned by prepare_data, the input is the standardized rows [i, i + L), the
\* target is the standardized column-0 value at row position i + L + H - 1,
\* that position is in range, and timestamps[i] is the cleaned table's
\* timestamp at that row position.  (Sequences are 1-based: window i is
\* element i + 1, row position p is element p + 1.)
C2_WindowContents ==
    /\ fe.error # "IndexError"
    /\ Sequenced =>
         \A i \in 0..(Len(seqs.X) - 1) :
            LET p == i + L + H - 1
            IN  /\ p >= 0 /\ p <= N - 1
                /\ seqs.X[i + 1] = [r \in 1..L |-> Standardized[i + r]]
                /\ seqs.y[i + 1] = Standardized[p + 1][1]
                /\ seqs.timestamps[i + 1] = df.rows[p + 1].timestamp

\* a window was produced from a table that lost a duplicate timestamp, so the
\* index labels of the cleaned table are no longer its row positions
C2_Witness ==
    /\ Sequenced
    /\ Len(seqs.X) >= 1
    /\ Len(df.rows) < Len(table.rows)
    /\ \E k \in 1..N : df.rows[k].index # k - 1

\* C6: whenever the cleaned table yields zero windows (N < L + H), the
\* pipeline reports insufficient data, returns a non-zero exit status and
\* writes none of the training artifacts.
C6_ZeroWindowsReported ==
    (Called /\ fe.pc \in {"done", "raised"} /\ N < L + H) =>
        /\ fe.stderr = "Not enough data"
        /\ fe.exit # 0
        /\ ~files.written

\* C7: for every prepared table that admits no valid window (0 <= N < L + H,
\* the empty table included), create_sequences returns empty X, y and
\* timestamps and raises no error.
C7_EmptyIsNotAnError ==
    (Called /\ N < L + H) =>
        /\ fe.pc # "raised"
        /\ seqs = NoSeqs

\* C9: for a table without a timestamp column, prepare completes and the
\* failure is raised as DataError when windowing is requested; no other error
\* type is raised and no windows are returned.
C9_MissingTimestampIsDataError ==
    ~HasColumn(table, "timestamp") =>
        /\ fe.call = "prepare_data" => fe.pc = "prepared"
        /\ fe.call = "create_sequences" => fe.pc = "raised"
        /\ fe.error \in {"", "DataError"}
        /\ seqs = NoSeqs

TransformMismatch ==
    /\ Called
    /\ ~fe.fit_scaler
    /\ engineer.scaler.fitted
    /\ Len(engineer.scaler.stats) # Len(engineer.feature_columns)

WindowColumns(w) == IF Len(w) = 0 THEN 0 ELSE Len(w[1])

\* predict ran on a window whose column count is not the scaler's
PredictMismatch ==
    /\ prediction.state # "none"
    /\ WindowColumns(prediction.input) # Len(predictor.scaler.stats)

LastLoss(h) == h[Len(h)]

\* C3: best_val_loss starts at infinity and never increases from epoch to
\* epoch; best_model.pth is written in an epoch only if that epoch's
\* validation loss is strictly below the best_val_loss held before it, and an
\* epoch with an equal or worse loss leaves the checkpoint as it was.
C3_BestOnlyImproves ==
    /\ [](tpc = "loop" /\ val_history = << >> => best_val_loss = Inf)
    /\ [][ /\ best_val_loss' <= best_val_loss
           /\ checkpoint' # checkpoint =>
                 /\ Len(val_history') = Len(val_history) + 1
                 /\ Less(LastLoss(val_history'), best_val_loss)
           /\ (Len(val_history') = Len(val_history) + 1
                 /\ ~Less(LastLoss(val_history'), best_val_loss)) =>
                 checkpoint' = checkpoint ]_vars

\* an epoch whose loss equals the best so far came after a saved one
C3_Witness ==
    /\ checkpoint.exists
    /\ Len(val_history) >= 2
    /\ LastLoss(val_history) = best_val_loss
    /\ checkpoint.epoch < Len(val_history) - 1

\* epoch e (1-based) strictly improved on everything before it
StrictImprovement(h, e) ==
    /\ Less(h[e], Inf)
    /\ \A j \in 1..(e - 1) : h[j] = NaN \/ h[e] < h[j]

\* the consecutive non-improving epochs since the most recent strict
\* improvement, or since the start
NonImprovingRun(h) ==
    Len(h) - Max({0} \cup { e \in 1..Len(h) : StrictImprovement(h, e) })

Prefix(h, k) == SubSeq(h, 1, k)

\* C4, as stated: the loop stops early at the end of exactly the first epoch
\* at which the run of non-improving epochs equals patience; it does not stop
\* early before and runs no epoch after.
C4_StopsAtPatience ==
    /\ texit.early <=>
          (val_history # << >> /\ NonImprovingRun(val_history) = targs.patience)
    /\ \A k \in 1..(Len(val_history) - 1) :
          NonImprovingRun(Prefix(val_history, k)) # targs.patience

\* C4, amended: the same with max(1, patience) in place of patience: an
\* improving epoch never stops training, so a patience of 0 acts as 1.
C4_StopsAtPatienceAtLeastOne ==
    LET p == Max({1, targs.patience})
    IN  /\ texit.early <=> (val_history # << >> /\ NonImprovingRun(val_history) = p)
        /\ \A k \in 1..(Len(val_history) - 1) :
              NonImprovingRun(Prefix(val_history, k)) < p

\* early stopping after an improvement, with a patience of two or more
C4_Witness ==
    /\ texit.early
    /\ checkpoint.exists
    /\ targs.patience >= 2

\* training got into the loop and is over
TrainingEnded ==
    \/ tpc = "break"
    \/ tpc = "done" /\ texit.status = 0
    \/ tpc = "crashed" /\ texit.error = "ZeroDivisionError"

\* C5: the loop ends after at most `epochs` epochs, and before the epoch cap
\* only when the patience counter has reached the configured patience.
C5_EndsByCapOrPatience ==
    /\ Len(val_history) <= targs.epochs
    /\ (TrainingEnded /\ Len(val_history) < targs.epochs) =>
          patience_counter >= targs.patience


\* =========================================================================
\* Properties of the predictor (SpecPredictor)
\* =========================================================================

TargetStats == predictor.scaler.stats[1]

\* C15: the returned temperature_celsius is mean[0] + std[0] * output, whatever
\* the scaler holds for the other features.
C15_CelsiusFromTargetOnly ==
    prediction.state = "returned" =>
        /\ prediction.scaled_pred \in ModelOutputs
        /\ prediction.result.temperature_celsius =
              Mean(TargetStats) + Scale(TargetStats) * prediction.scaled_pred

C15_Witness ==
    /\ prediction.state = "returned"
    /\ prediction.scaled_pred # 0
    /\ Mean(predictor.scaler.stats[2]) # Mean(TargetStats)
    /\ Scale(predictor.scaler.stats[2]) # Scale(TargetStats)

SameWindowSameResult(log) ==
    \A i, j \in 1..Len(log) : log[i][1] = log[j][1] => log[i][2] = log[j][2]

\* C17: predict calls leave the predictor's weights, mode, scaler and metadata
\* as they were after construction, and the same window always gets the same
\* result.
C17_PredictIsReadOnly ==
    /\ [](predictor.pc = "loaded" => ~predictor.model.training)
    /\ [](SameWindowSameResult(results))
    /\ [][predictor.pc = "loaded" => predictor' = predictor]_vars

\* a window asked again after another window was answered in between
C17_Witness ==
    /\ Len(results) = 3
    /\ results[1][1] = results[3][1]
    /\ results[2][1] # results[1][1]
    /\ results[2][2] # results[1][2]

\* =========================================================================
\* More properties of the training loop (SpecTrain)
\* =========================================================================

\* the most recent strictly improving epoch (1-based), 0 if there is none
LastImproving(h) == Max({0} \cup { e \in 1..Len(h) : StrictImprovement(h, e) })

\* C19: at the end of every epoch an existing best_model.pth holds the current
\* best_val_loss and the 0-based index of the most recent strictly improving
\* epoch; a run that returns 0 and prints "Model saved to" has such a file.
C19_CheckpointIsBestAndExists ==
    /\ (Len(val_history) >= 1 /\ checkpoint.exists) =>
          /\ checkpoint.val_loss = best_val_loss
          /\ LastImproving(val_history) >= 1
          /\ checkpoint.epoch = LastImproving(val_history) - 1
    /\ (tpc = "done" /\ texit.status = 0 /\ texit.stdout = "Model saved to") =>
          checkpoint.exists

\* =========================================================================
\* Properties of the downloader (SpecDownload)
\* =========================================================================

Counted(log) == { j \in 1..Len(log) : log[j].counted }

\* C18: in a run, a combination whose file exists and is non-empty gets no
\* request; any other gets exactly one; a non-200 or wrong-content-type
\* response is neither retried nor counted as saved; the run goes on to the
\* remaining combinations, and saved never exceeds the attempts.
C18_OneRequestOrNone ==
    /\ \A j \in 1..Len(dl.log) :
          LET e == dl.log[j]
          IN  /\ e.before \in {"partial", "complete"} => e.requests = 0 /\ ~e.counted
              /\ e.before \in {"absent", "empty"} => e.requests = 1
              /\ e.outcome \in {"bad_status", "bad_content_type"} =>
                    e.requests = 1 /\ ~e.counted
    /\ dl.pc \in {"loop", "done"} /\ dl.status # 1 =>
          /\ dl.total = Len(dl.log)
          /\ dl.saved = Cardinality(Counted(dl.log))
          /\ dl.saved <= dl.total
    /\ dl.pc = "done" /\ dl.status = 0 => Len(dl.log) = Len(dl.paths)

\* a skipped response, then a file an earlier run saved, in a finished run
C18_Witness ==
    /\ dl.pc = "done"
    /\ Len(dl.log) = 2
    /\ dl.log[1].outcome = "bad_content_type"
    /\ dl.log[2].before = "complete"
    /\ dl.log[2].requests = 0

\* C20: every non-empty output file holds a whole response, so no run skips a
\* combination whose earlier download broke off.
C20_NonEmptyFilesAreComplete ==
    /\ \A p \in OutPaths : disk[p] # "partial"
    /\ \A j \in 1..Len(dl.log) :
          dl.log[j].requests = 0 => dl.log[j].before = "complete"

\* =========================================================================
\* Properties of the API (SpecServe)
\* =========================================================================

\* predict was called by a request
PredictCalled == prediction.state # "none"

\* C11: the feature columns of the window handed to predict, their count and
\* their order, are the feature_columns the persisted scaler was fit on.
C11_ServedColumnsAreFitColumns ==
    PredictCalled =>
        /\ ApiFeatures = predictor.metadata.feature_columns
        /\ Len(ApiFeatures) = Len(predictor.scaler.stats)

\* the table as the handler sees it after lines 80-85
ServedTable ==
    [columns |-> data.columns \o TimeColumns,
     rows |-> [i \in 1..Len(data.rows) |-> TimeFeatures(data.rows[i])]]

\* the last n rows of m
LastN(m, n) == SubSeq(m, Max({1, Len(m) - n + 1}), Len(m))

\* C12: the window handed to predict is exactly the last sequence_length rows
\* of the processed table, sequence_length being the one of the metadata.
C12_WindowIsLastSequenceLengthRows ==
    PredictCalled =>
        /\ Len(prediction.input) = predictor.metadata.sequence_length
        /\ prediction.input =
              LastN(Features(ServedTable, ApiFeatures), predictor.metadata.sequence_length)

\* inside the reported lat_range and lon_range, ends included
InReportedArea(rq) ==
    /\ SupportedArea.lat_range[1] <= rq[1] /\ rq[1] <= SupportedArea.lat_range[2]
    /\ SupportedArea.lon_range[1] <= rq[2] /\ rq[2] <= SupportedArea.lon_range[2]

\* C13: a forecast request is answered 'Location not supported' exactly when
\* (lat, lon) is outside the reported box, loaded predictor or not; a point in
\* the box or on its edge goes on to the model check.
C13_RejectedIffOutsideReportedArea ==
    response.kind = "forecast" =>
        /\ response.error = "Location not supported" <=> ~InReportedArea(response.request)
        /\ response.error = "Location not supported" =>
              response.body.supported_area = SupportedArea

\* C14: no failure escapes the service: after a failed load predictor is unset,
\* health says model_loaded = false and in-area forecasts say 'Model not
\* loaded'; an error while reading or predicting is a 'Prediction failed'
\* payload; every request gets a payload.
C14_NoFailureEscapes ==
    /\ (service.pc = "serving" /\ ~service.artifacts.present) => predictor.pc = "none"
    /\ response.kind = "health" =>
          /\ response.http = 200
          /\ response.body.model_loaded = service.artifacts.present
    /\ response.kind = "forecast" =>
          /\ response.http = 200
          /\ (InBox(response.request[1], response.request[2]) /\ predictor.pc = "none")
                => response.error = "Model not loaded"
          /\ (InBox(response.request[1], response.request[2]) /\ predictor.pc # "none"
                /\ (ReadError(data) # "" \/ prediction.state = "raised"))
                => response.error = "Prediction failed"

\* C16: temperature_fahrenheit = temperature_celsius * 9/5 + 32 in every
\* result (0 C is 32 F, 100 C is 212 F), and the endpoint converts the current
\* observation in the same way.
C16_FahrenheitFormula ==
    /\ Fahrenheit(0) = 32
    /\ Fahrenheit(100) = 212
    /\ prediction.state = "returned" /\ prediction.result.temperature_celsius # NaN =>
          5 * prediction.result.temperature_fahrenheit =
             9 * prediction.result.temperature_celsius + 160
    /\ (response.kind = "forecast" /\ response.http = 200 /\ response.error = "") =>
          /\ 5 * response.body.current.temperature =
                9 * data.rows[Len(data.rows)].temperature + 160
          /\ response.body.forecast.temperature = prediction.result.temperature_fahrenheit

C16_Witness ==
    /\ response.kind = "forecast"
    /\ response.http = 200
    /\ response.error = ""
    /\ prediction.state = "returned"
    /\ prediction.result.temperature_celsius # 20

\* =========================================================================
\* The partitions the feature-engineering script writes (SpecFE)
\* =========================================================================

\* C21: when the script exits with status 0, the train partition is the first
\* int(W * train_split) windows and the validation partition the remaining
\* ones in order, train_samples + val_samples = W, and both partitions are
\* non-empty, so that both loaders of the trainer have at least one batch.
C21_BothPartitionsNonEmpty ==
    (fe.pc = "done" /\ fe.exit = 0) =>
        LET W == Len(seqs.X)
        IN  /\ files.written
            /\ W >= 1
            /\ \E train_split \in TrainSplits :
                  Len(files.X_train) = (W * train_split) \div 100
            /\ files.X_train \o files.X_val = seqs.X
            /\ files.y_train \o files.y_val = seqs.y
            /\ Len(files.y_train) = Len(files.X_train)
            /\ files.metadata.train_samples = Len(files.X_train)
            /\ files.metadata.val_samples = Len(files.X_val)
            /\ files.metadata.train_samples + files.metadata.val_samples = W
            /\ files.metadata.train_samples >= 1
            /\ files.metadata.val_samples >= 1
            /\ NumBatches(files.metadata.train_samples, BatchSize) >= 1
            /\ NumBatches(files.metadata.val_samples, BatchSize) >= 1


====
